---- MODULE Spec2Model ----
(***************************************************************************)
(* Model of the ISO-TP OTA sender, esp_isotp/examples/ota/                *)
(* pytest_isotp_ota.py: _make_header, ota_send_isotp and its nested       *)
(* send_chunk.  The driver is single threaded; every statement that       *)
(* touches the CAN bus, the ISO-TP stack or the clock is one action.      *)
(* The ISO-TP stack (python can-isotp) and the bus (python-can) are the   *)
(* environment: send() queues a unit or raises, process() may or may not  *)
(* finish the queued unit, transmitting() reports whether a unit is still *)
(* queued, and time passes while the driver sleeps or processes.          *)
(***************************************************************************)
EXTENDS Integers, Sequences, FiniteSets, TLC

(* ---------------- bounds of the model ---------------- *)
MaxLen == 9           \* longest payload, in bytes
MaxChunk == 9         \* largest configured chunk size
MaxTimeout == 1       \* largest configured timeout, in clock ticks
MaxStep == 2          \* longest time one sleep() can take, in clock ticks
ProcStep == 1         \* longest time one process() call can take
MaxEchoTimeout == 2   \* largest timeout of test_echo, in sleeps of its poll loop
MaxTests == 2         \* most test cases in one batch
MaxRx == 2            \* most received messages the stack queues

(* ---------------- helpers ---------------- *)
Max(a, b) == IF a >= b THEN a ELSE b
Min(a, b) == IF a <= b THEN a ELSE b

\* Python slice s[a:b] for a >= 0: both ends are clamped to len(s).
Slice(s, a, b) ==
    LET lo == Min(Max(a, 0), Len(s))
        hi == Min(Max(b, 0), Len(s))
    IN  IF lo >= hi THEN << >> ELSE SubSeq(s, lo + 1, hi)

\* struct.pack "<I": the four bytes of v, least significant first
Le32(v) == [i \in 1..4 |-> (v \div (256 ^ (i - 1))) % 256]

\* struct.pack raises struct.error when the 'I' argument is out of range
\* (the range is 0 .. 2^32 - 1; written with a quotient to stay inside 32-bit integers)
PackRaises(size) == size < 0 \/ size \div 65536 >= 65536

\* _make_header: 'O','T' + size(le32) + reserved(le16)
MakeHeader(size) == <<79, 84>> \o Le32(size) \o <<0, 0>>

\* Sizes beyond 32-bit integers are written as two 16-bit-wide halves:
\* [hi, lo] stands for hi * 65536 + lo, with lo in 0..65535 and hi >= 0.
WideOf(v) == [hi |-> v \div 65536, lo |-> v % 65536]

\* variant: an out-of-range size is packed modulo 2^32 instead of raising
WidePackRaises_Never(sz) == FALSE

\* struct.pack raises struct.error when the 'I' argument is >= 2^32
WidePackRaises(sz) == sz.hi >= 65536

\* struct.pack "<I" on a size given by its halves
WideLe32(sz) ==
    <<sz.lo % 256, (sz.lo \div 256) % 256, sz.hi % 256, (sz.hi \div 256) % 256>>

\* _make_header on a size given by its halves
WideMakeHeader(sz) == <<79, 84>> \o WideLe32(sz) \o <<0, 0>>

\* the payload lengths of the header model: around every byte boundary of
\* the size field, and on both sides of 2^32
SizeHi == {0, 1, 255, 256, 257, 32767, 65535, 65536, 65537, 131072}
SizeLo == {0, 1, 255, 256, 65535}
Sizes == {[hi |-> h, lo |-> l] : h \in SizeHi, l \in SizeLo}

\* the payloads the model sends: bytes(range(L)) and a constant fill
Payload(kind, L) == [i \in 1..L |-> IF kind = "ramp" THEN (i - 1) % 256 ELSE 255]
Payloads == {Payload(k, L) : k \in {"ramp", "fill"}, L \in 0..MaxLen}

(* ---------------- the expressions of ota_send_isotp ---------------- *)
\* variant: the header length is not taken off the first slice
FirstSplit_NoHeader(c, hlen) == c

\* n0 = max(0, chunk - len(header))
FirstSplit(c, hlen) == Max(0, c - hlen)

\* first_chunk = header + fw[:n0]
FirstChunk(p, c) ==
    LET header == MakeHeader(Len(p))
    IN  header \o Slice(p, 0, FirstSplit(c, Len(header)))

\* variant: the slice is one byte too long
NextSlice_Long(p, o, c) == Slice(p, o, o + c + 1)

\* chunk_data = fw[off: off + chunk]
NextSlice(p, o, c) == Slice(p, o, o + c)

\* variant: off <= len(fw)
MoreToSend_Inclusive(o, p) == o <= Len(p)

\* while off < len(fw)
MoreToSend(o, p) == o < Len(p)

\* variant: the offset skips a byte
NextOff_Skip(o, c) == o + c + 1

\* off += chunk
NextOff(o, c) == o + c

\* variant: the drain is not awaited
PollAgain_Never(t) == FALSE

\* while stack.transmitting()
PollAgain(t) == t

\* variant: >= instead of >
TimedOut_Early(t, s, limit) == t - s >= limit

\* if time.time() - start > timeout
TimedOut(t, s, limit) == t - s > limit

\* variant: the result of send_chunk is ignored
AfterChunk_Continue(ok, w) == IF w = "first" THEN "rest_init" ELSE "advance"

\* if not send_chunk(...): return False
AfterChunk(ok, w) ==
    IF ~ok THEN "ret_false"
    ELSE IF w = "first" THEN "rest_init" ELSE "advance"

\* variant: the bus is never released
NeedsShutdown_Never(b) == FALSE

\* variant: a sleep that lets no time pass
SleepTime_Zero == 0..MaxStep

\* time.sleep(0.001): the clock readings differ by at least one tick
SleepTime == 1..MaxStep

\* finally: if bus:
NeedsShutdown(b) == b # "none"

\* variant: the exception of bus.shutdown() is not caught
AfterShutdown_Propagate(pending, raised) ==
    IF raised THEN [kind |-> "raised", value |-> "none"]
    ELSE [kind |-> "returned", value |-> pending]

\* try: bus.shutdown() except Exception: logging.warning(...)
\* the pending return value survives a failing shutdown
AfterShutdown(pending, raised) == [kind |-> "returned", value |-> pending]

(* ---------------- state ---------------- *)
VARIABLES
    fw, chunk, timeout,      \* arguments of ota_send_isotp
    pc,                      \* the statement the driver executes next
    which,                   \* "first" or "rest": the call site of send_chunk
    bus,                     \* "none", "open" or "closed" (after shutdown)
    tx,                      \* stack.transmitting()
    now,                     \* time.time()
    start,                   \* send_chunk's local start
    data,                    \* send_chunk's argument
    n0, off, chunk_count,    \* locals of ota_send_isotp
    retval,                  \* "True"/"False": value of the executed return; "none" before it
    outcome,                 \* what the caller gets, once pc = "done"
    sendLog,                 \* every unit handed to stack.send(), in order
    drained,                 \* number of send_chunk calls that returned True
    failed,                  \* a chunk timed out or send() raised
    timedOut,                \* send_chunk returned False
    shutdownCalls,           \* number of bus.shutdown() calls
    shutdownRaised,          \* bus.shutdown() raised
    lateCalls,               \* send()/process() calls made after bus.shutdown()
    extraProcs,              \* number of stack.process() calls made at line 130
    procRaised               \* a stack.process() call raised

\* state of the header model: lines 112-118 and 135-137 of ota_send_isotp
\* followed through for a payload known by its length only
VARIABLES
    hsize,                   \* len(fw), as two halves
    hpc,                     \* the statement executed next
    hdr,                     \* header, once _make_header has returned
    hdr2,                    \* the result of a second _make_header(len(fw))
    hsent,                   \* the header bytes of the first unit handed to send()
    hret                     \* the value returned after a struct.error

hvars == <<hsize, hpc, hdr, hdr2, hsent, hret>>

\* state of the echo tester (ISOTPTester and its caller run_test_batch)
VARIABLES
    self_bus,                \* self.bus: "none", "open" or "closed" (after shutdown)
    self_isotp_stack,        \* self.isotp_stack is set
    self_running,            \* self.running
    self_process_thread,     \* self.process_thread: "none", "created" or "started"
    mpc,                     \* the statement the main thread executes next
    tpc,                     \* the statement the background thread executes next
    caller,                  \* who called close(): "enter" or "exit"
    entered,                 \* the tester is used in a with statement
    edata, etimeout,         \* arguments of test_echo
    enow,                    \* time.time()
    recv_start,              \* local of test_echo
    rxq,                     \* the messages the stack has received, oldest first
    received,                \* local of test_echo; << >> before recv()
    eresult,                 \* what test_echo returned: "none", "True" or "False"
    exc,                     \* the exception leaving __enter__ or __exit__
    testsLeft,               \* test cases of the batch not yet run
    recvCount,               \* recv() calls that returned, in this test_echo
    cause,                   \* the return statement test_echo took
    lateProcess              \* process() was called after self.bus.shutdown()

evars == <<self_bus, self_isotp_stack, self_running, self_process_thread, mpc, tpc,
           caller, entered, edata, etimeout, enow, recv_start, rxq, received,
           eresult, exc, testsLeft, recvCount, cause, lateProcess>>

\* the echo tester is not running
EchoIdle ==
    /\ self_bus = "none"
    /\ self_isotp_stack = FALSE
    /\ self_running = FALSE
    /\ self_process_thread = "none"
    /\ mpc = "unused" /\ tpc = "unused"
    /\ caller = "none"
    /\ entered = FALSE
    /\ edata = << >> /\ etimeout = 0
    /\ enow = 0 /\ recv_start = 0
    /\ rxq = << >> /\ received = << >>
    /\ eresult = "none" /\ exc = "none"
    /\ testsLeft = 0 /\ recvCount = 0
    /\ cause = "none"
    /\ lateProcess = FALSE

vars == <<hvars, evars, fw, chunk, timeout, pc, which, bus, tx, now, start, data, n0, off,
          chunk_count, retval, outcome, sendLog, drained, failed, timedOut,
          shutdownCalls, shutdownRaised, lateCalls, extraProcs, procRaised>>

args == <<fw, chunk, timeout>>
ghost == <<sendLog, drained, failed, timedOut, shutdownCalls, shutdownRaised, lateCalls,
           extraProcs, procRaised>>
locals == <<n0, off, chunk_count>>

NoOutcome == [kind |-> "running", value |-> "none"]

\* the header model is not running
HeaderIdle ==
    /\ hsize = WideOf(0)
    /\ hpc = "unused"
    /\ hdr = << >> /\ hdr2 = << >> /\ hsent = << >>
    /\ hret = "none"

Init ==
    /\ HeaderIdle
    /\ EchoIdle
    /\ fw \in Payloads
    /\ chunk \in 1..MaxChunk
    /\ timeout \in 0..MaxTimeout
    /\ pc = "open_bus"
    /\ which = "first"
    /\ bus = "none"
    /\ tx = FALSE
    /\ now = 0
    /\ start = 0
    /\ data = << >>
    /\ n0 = 0 /\ off = 0 /\ chunk_count = 0
    /\ retval = "none"
    /\ outcome = NoOutcome
    /\ sendLog = << >>
    /\ drained = 0
    /\ failed = FALSE
    /\ timedOut = FALSE
    /\ shutdownCalls = 0
    /\ shutdownRaised = FALSE
    /\ lateCalls = 0
    /\ extraProcs = 0
    /\ procRaised = FALSE

Late == IF bus = "closed" THEN 1 ELSE 0

(* ---------------- setup, lines 88-97 ---------------- *)
\* bus = can.Bus(interface="socketcan", channel=interface)
OpenBus ==
    /\ pc = "open_bus"
    /\ \E ok \in BOOLEAN :
         /\ bus' = IF ok THEN "open" ELSE bus
         /\ pc' = IF ok THEN "mk_addr" ELSE "except"
    /\ UNCHANGED <<hvars, evars, args, which, tx, now, start, data, locals, retval, outcome, ghost>>

\* addr = isotp.Address(txid=rx_id, rxid=tx_id)
MakeAddress ==
    /\ pc = "mk_addr"
    /\ \E ok \in BOOLEAN : pc' = IF ok THEN "mk_stack" ELSE "except"
    /\ UNCHANGED <<hvars, evars, args, which, bus, tx, now, start, data, locals, retval, outcome, ghost>>

\* stack = isotp.CanStack(bus, address=addr, params={...})
MakeStack ==
    /\ pc = "mk_stack"
    /\ \E ok \in BOOLEAN : pc' = IF ok THEN "header" ELSE "except"
    /\ UNCHANGED <<hvars, evars, args, which, bus, tx, now, start, data, locals, retval, outcome, ghost>>

(* ---------------- first chunk, lines 112-117 ---------------- *)
BuildFirst ==
    /\ pc = "header"
    /\ IF PackRaises(Len(fw))
       THEN /\ pc' = "except"
            /\ UNCHANGED <<n0, data>>
       ELSE /\ n0' = FirstSplit(chunk, Len(MakeHeader(Len(fw))))
            /\ data' = FirstChunk(fw, chunk)
            /\ pc' = "sc_start"
    /\ which' = "first"
    /\ UNCHANGED <<hvars, evars, args, bus, tx, now, start, off, chunk_count, retval, outcome, ghost>>

(* ---------------- send_chunk, lines 99-109 ---------------- *)
\* start = time.time()
ChunkStart ==
    /\ pc = "sc_start"
    /\ start' = now
    /\ pc' = "sc_send"
    /\ UNCHANGED <<hvars, evars, args, which, bus, tx, now, data, locals, retval, outcome, ghost>>

\* stack.send(data): queues the unit, or raises
ChunkSend ==
    /\ pc = "sc_send"
    /\ \E ok \in BOOLEAN :
         /\ sendLog' = Append(sendLog, [unit |-> data, busy |-> tx, ok |-> ok])
         /\ tx' = IF ok THEN TRUE ELSE tx
         /\ failed' = (failed \/ ~ok)
         /\ pc' = IF ok THEN "sc_poll" ELSE "except"
    /\ lateCalls' = lateCalls + Late
    /\ UNCHANGED <<hvars, evars, args, which, bus, now, start, data, locals, retval, outcome,
                   drained, timedOut, shutdownCalls, shutdownRaised, extraProcs, procRaised>>

\* while stack.transmitting(): ... / return True
ChunkPoll ==
    /\ pc = "sc_poll"
    /\ IF PollAgain(tx)
       THEN /\ pc' = "sc_process"
            /\ UNCHANGED drained
       ELSE /\ pc' = AfterChunk(TRUE, which)
            /\ drained' = drained + 1
    /\ UNCHANGED <<hvars, evars, args, which, bus, tx, now, start, data, locals, retval, outcome,
                   sendLog, failed, timedOut, shutdownCalls, shutdownRaised, lateCalls,
                   extraProcs, procRaised>>

\* stack.process(): one step of the stack; it may finish the queued unit,
\* it takes some time, and it may raise
ChunkProcess ==
    /\ pc = "sc_process"
    /\ \E ok \in BOOLEAN, done \in BOOLEAN, d \in 0..ProcStep :
         /\ tx' = IF done THEN FALSE ELSE tx
         /\ now' = now + d
         /\ pc' = IF ok THEN "sc_check" ELSE "except"
         /\ procRaised' = (procRaised \/ ~ok)
    /\ lateCalls' = lateCalls + Late
    /\ UNCHANGED <<hvars, evars, args, which, bus, start, data, locals, retval, outcome,
                   sendLog, drained, failed, timedOut, shutdownCalls, shutdownRaised,
                   extraProcs>>

\* if time.time() - start > timeout: return False
ChunkCheck ==
    /\ pc = "sc_check"
    /\ IF TimedOut(now, start, timeout)
       THEN /\ pc' = AfterChunk(FALSE, which)
            /\ timedOut' = TRUE
            /\ failed' = TRUE
       ELSE /\ pc' = "sc_sleep"
            /\ UNCHANGED <<timedOut, failed>>
    /\ UNCHANGED <<hvars, evars, args, which, bus, tx, now, start, data, locals, retval, outcome,
                   sendLog, drained, shutdownCalls, shutdownRaised, lateCalls,
                   extraProcs, procRaised>>

\* time.sleep(0.001)
ChunkSleep ==
    /\ pc = "sc_sleep"
    /\ \E d \in SleepTime : now' = now + d
    /\ pc' = "sc_poll"
    /\ UNCHANGED <<hvars, evars, args, which, bus, tx, start, data, locals, retval, outcome, ghost>>

(* ---------------- remaining chunks, lines 121-133 ---------------- *)
\* off = n0; chunk_count = 1
RestInit ==
    /\ pc = "rest_init"
    /\ off' = n0
    /\ chunk_count' = 1
    /\ pc' = "loop"
    /\ UNCHANGED <<hvars, evars, args, which, bus, tx, now, start, data, n0, retval, outcome, ghost>>

\* while off < len(fw): chunk_data = fw[off: off + chunk]; send_chunk(chunk_data)
LoopTest ==
    /\ pc = "loop"
    /\ IF MoreToSend(off, fw)
       THEN /\ data' = NextSlice(fw, off, chunk)
            /\ which' = "rest"
            /\ pc' = "sc_start"
       ELSE /\ pc' = "complete"
            /\ UNCHANGED <<data, which>>
    /\ UNCHANGED <<hvars, evars, args, bus, tx, now, start, locals, retval, outcome, ghost>>

\* off += chunk; chunk_count += 1
Advance ==
    /\ pc = "advance"
    /\ off' = NextOff(off, chunk)
    /\ chunk_count' = chunk_count + 1
    /\ pc' = "loop_process"
    /\ UNCHANGED <<hvars, evars, args, which, bus, tx, now, start, data, n0, retval, outcome, ghost>>

\* stack.process() after a sent chunk
LoopProcess ==
    /\ pc = "loop_process"
    /\ \E ok \in BOOLEAN, done \in BOOLEAN, d \in 0..ProcStep :
         /\ tx' = IF done THEN FALSE ELSE tx
         /\ now' = now + d
         /\ pc' = IF ok THEN "loop" ELSE "except"
         /\ procRaised' = (procRaised \/ ~ok)
    /\ lateCalls' = lateCalls + Late
    /\ extraProcs' = extraProcs + 1
    /\ UNCHANGED <<hvars, evars, args, which, bus, start, data, locals, retval, outcome,
                   sendLog, drained, failed, timedOut, shutdownCalls, shutdownRaised>>

\* logging.info("Firmware transmission complete ..."); return True
Complete ==
    /\ pc = "complete"
    /\ retval' = "True"
    /\ pc' = "finally"
    /\ UNCHANGED <<hvars, evars, args, which, bus, tx, now, start, data, locals, outcome, ghost>>

\* return False, lines 118 and 127
ReturnFalse ==
    /\ pc = "ret_false"
    /\ retval' = "False"
    /\ pc' = "finally"
    /\ UNCHANGED <<hvars, evars, args, which, bus, tx, now, start, data, locals, outcome, ghost>>

\* except Exception as e: logging.error(...); return False
Except ==
    /\ pc = "except"
    /\ retval' = "False"
    /\ pc' = "finally"
    /\ UNCHANGED <<hvars, evars, args, which, bus, tx, now, start, data, locals, outcome, ghost>>

\* finally: if bus: try: bus.shutdown() except Exception: logging.warning(...)
Finally ==
    /\ pc = "finally"
    /\ IF NeedsShutdown(bus)
       THEN \E raised \in BOOLEAN :
              /\ bus' = "closed"
              /\ shutdownCalls' = shutdownCalls + 1
              /\ shutdownRaised' = raised
              /\ outcome' = AfterShutdown(retval, raised)
       ELSE /\ outcome' = [kind |-> "returned", value |-> retval]
            /\ UNCHANGED <<bus, shutdownCalls, shutdownRaised>>
    /\ pc' = "done"
    /\ UNCHANGED <<hvars, evars, args, which, tx, now, start, data, locals, retval,
                   sendLog, drained, failed, timedOut, lateCalls, extraProcs, procRaised>>

Next ==
    \/ OpenBus \/ MakeAddress \/ MakeStack \/ BuildFirst
    \/ ChunkStart \/ ChunkSend \/ ChunkPoll \/ ChunkProcess \/ ChunkCheck \/ ChunkSleep
    \/ RestInit \/ LoopTest \/ Advance \/ LoopProcess
    \/ Complete \/ ReturnFalse \/ Except \/ Finally

Spec == Init /\ [][Next]_vars

\* the interpreter keeps executing the single driver thread until it returns
FairSpec == Spec /\ WF_vars(Next)

(* ---------------- the header model ---------------- *)
\* the driver is not running
OtaIdle ==
    /\ fw = << >> /\ chunk = 1 /\ timeout = 0
    /\ pc = "unused"
    /\ which = "first"
    /\ bus = "none"
    /\ tx = FALSE
    /\ now = 0 /\ start = 0
    /\ data = << >>
    /\ n0 = 0 /\ off = 0 /\ chunk_count = 0
    /\ retval = "none"
    /\ outcome = NoOutcome
    /\ sendLog = << >>
    /\ drained = 0
    /\ failed = FALSE /\ timedOut = FALSE
    /\ shutdownCalls = 0 /\ shutdownRaised = FALSE
    /\ lateCalls = 0 /\ extraProcs = 0
    /\ procRaised = FALSE

otaVars == <<args, pc, which, bus, tx, now, start, data, locals, retval, outcome, ghost>>

HeaderInit ==
    /\ OtaIdle
    /\ EchoIdle
    /\ hsize \in Sizes
    /\ hpc = "header"
    /\ hdr = << >> /\ hdr2 = << >> /\ hsent = << >>
    /\ hret = "none"

\* header = _make_header(len(fw)): struct.pack returns the bytes or raises
HeaderBuild ==
    /\ hpc = "header"
    /\ IF WidePackRaises(hsize)
       THEN /\ hpc' = "except"
            /\ UNCHANGED hdr
       ELSE /\ hdr' = WideMakeHeader(hsize)
            /\ hpc' = "sc_send"
    /\ UNCHANGED <<hsize, hdr2, hsent, hret, otaVars, evars>>

\* first_chunk = header + fw[:n0]; send_chunk(first_chunk): stack.send(data)
HeaderSend ==
    /\ hpc = "sc_send"
    /\ hsent' = SubSeq(hdr, 1, Len(hdr))
    /\ hpc' = "again"
    /\ UNCHANGED <<hsize, hdr, hdr2, hret, otaVars, evars>>

\* _make_header(len(fw)) called a second time with the same size
HeaderAgain ==
    /\ hpc = "again"
    /\ hdr2' = WideMakeHeader(hsize)
    /\ hpc' = "done"
    /\ UNCHANGED <<hsize, hdr, hsent, hret, otaVars, evars>>

\* except Exception as e: logging.error(...); return False
HeaderExcept ==
    /\ hpc = "except"
    /\ hret' = "False"
    /\ hpc' = "done"
    /\ UNCHANGED <<hsize, hdr, hdr2, hsent, otaVars, evars>>

HeaderNext == HeaderBuild \/ HeaderSend \/ HeaderAgain \/ HeaderExcept

HeaderSpec == HeaderInit /\ [][HeaderNext]_vars

(* ---------------- the echo tester, pytest_isotp_echo.py ---------------- *)
\* ISOTPTester used by run_test_batch: the main thread runs __enter__, the
\* test_echo calls and close(); the background thread runs _process.

\* the test data and the messages the stack can receive
EchoData == {<<1>>, <<0, 1>>}
EchoMsgs == {<<1>>, <<0, 1>>, <<1, 0>>}

\* variant: only the lengths are compared
EchoMatches_Length(r, d) == Len(r) = Len(d)

\* if received == data
EchoMatches(r, d) == r = d

\* while time.time() - recv_start < timeout
StillWaiting(t, s, limit) == t - s < limit

\* Thread.is_alive(): started and _process has not returned
IsAlive(th, p) == th = "started" /\ p # "exit"

\* Thread.join(timeout=1.0) returns
JoinReturns(ended, elapsed) == ended \/ elapsed

EchoIdleOthers == HeaderIdle /\ OtaIdle

EchoInit ==
    /\ EchoIdleOthers
    /\ self_bus = "none"
    /\ self_isotp_stack = FALSE
    /\ self_running = FALSE
    /\ self_process_thread = "none"
    /\ entered \in BOOLEAN
    /\ mpc = IF entered THEN "e_bus" ELSE "t_next"
    /\ tpc = "idle"
    /\ caller = "none"
    /\ edata = << >>
    /\ etimeout \in 0..MaxEchoTimeout
    /\ enow = 0 /\ recv_start = 0
    /\ rxq = << >>
    /\ received = << >>
    /\ eresult = "none"
    /\ exc = "none"
    /\ testsLeft = MaxTests
    /\ recvCount = 0
    /\ cause = "none"
    /\ lateProcess = FALSE

\* __enter__: self.bus = can.Bus(interface='socketcan', channel='vcan0')
EnterOpenBus ==
    /\ mpc = "e_bus"
    /\ \E ok \in BOOLEAN :
         /\ self_bus' = IF ok THEN "open" ELSE self_bus
         /\ mpc' = IF ok THEN "e_stack" ELSE "e_except"
    /\ UNCHANGED <<hvars, otaVars, self_isotp_stack, self_running, self_process_thread,
                   tpc, caller, entered, edata, etimeout, enow, recv_start, rxq,
                   received, eresult, exc, testsLeft, recvCount, cause, lateProcess>>

\* address = isotp.Address(...); self.isotp_stack = isotp.CanStack(...)
EnterMakeStack ==
    /\ mpc = "e_stack"
    /\ \E ok \in BOOLEAN :
         /\ self_isotp_stack' = IF ok THEN TRUE ELSE self_isotp_stack
         /\ mpc' = IF ok THEN "e_running" ELSE "e_except"
    /\ UNCHANGED <<hvars, otaVars, self_bus, self_running, self_process_thread, tpc,
                   caller, entered, edata, etimeout, enow, recv_start, rxq, received,
                   eresult, exc, testsLeft, recvCount, cause, lateProcess>>

\* self.running = True
EnterSetRunning ==
    /\ mpc = "e_running"
    /\ self_running' = TRUE
    /\ mpc' = "e_thread"
    /\ UNCHANGED <<hvars, otaVars, self_bus, self_isotp_stack, self_process_thread,
                   tpc, caller, entered, edata, etimeout, enow, recv_start, rxq,
                   received, eresult, exc, testsLeft, recvCount, cause, lateProcess>>

\* self.process_thread = threading.Thread(target=self._process, daemon=True)
EnterMakeThread ==
    /\ mpc = "e_thread"
    /\ \E ok \in BOOLEAN :
         /\ self_process_thread' = IF ok THEN "created" ELSE self_process_thread
         /\ mpc' = IF ok THEN "e_start" ELSE "e_except"
    /\ UNCHANGED <<hvars, otaVars, self_bus, self_isotp_stack, self_running, tpc,
                   caller, entered, edata, etimeout, enow, recv_start, rxq, received,
                   eresult, exc, testsLeft, recvCount, cause, lateProcess>>

\* self.process_thread.start()
EnterStartThread ==
    /\ mpc = "e_start"
    /\ \E ok \in BOOLEAN :
         /\ self_process_thread' = IF ok THEN "started" ELSE self_process_thread
         /\ tpc' = IF ok THEN "b_while" ELSE tpc
         /\ mpc' = IF ok THEN "e_log" ELSE "e_except"
    /\ UNCHANGED <<hvars, otaVars, self_bus, self_isotp_stack, self_running, caller,
                   entered, edata, etimeout, enow, recv_start, rxq, received, eresult,
                   exc, testsLeft, recvCount, cause, lateProcess>>

\* logging.info(...); return self
EnterReturn ==
    /\ mpc = "e_log"
    /\ mpc' = "t_next"
    /\ UNCHANGED <<hvars, otaVars, self_bus, self_isotp_stack, self_running,
                   self_process_thread, tpc, caller, entered, edata, etimeout, enow,
                   recv_start, rxq, received, eresult, exc, testsLeft, recvCount,
                   cause, lateProcess>>

\* except Exception as e: logging.error(...); self.close()
EnterExcept ==
    /\ mpc = "e_except"
    /\ caller' = "enter"
    /\ mpc' = "c_flag"
    /\ UNCHANGED <<hvars, otaVars, self_bus, self_isotp_stack, self_running,
                   self_process_thread, tpc, entered, edata, etimeout, enow,
                   recv_start, rxq, received, eresult, exc, testsLeft, recvCount,
                   cause, lateProcess>>

\* raise
EnterRaise ==
    /\ mpc = "e_raise"
    /\ exc' = "orig"
    /\ mpc' = "raised"
    /\ UNCHANGED <<hvars, otaVars, self_bus, self_isotp_stack, self_running,
                   self_process_thread, tpc, caller, entered, edata, etimeout, enow,
                   recv_start, rxq, received, eresult, testsLeft, recvCount, cause,
                   lateProcess>>

\* run_test_batch: for data, test_name in test_cases: tester.test_echo(data, test_name)
\* and, after the last case, __exit__: self.close()
TestNext ==
    /\ mpc = "t_next"
    /\ IF testsLeft > 0
       THEN /\ \E d \in EchoData : edata' = d
            /\ testsLeft' = testsLeft - 1
            /\ eresult' = "none" /\ cause' = "none"
            /\ received' = << >> /\ recvCount' = 0
            /\ mpc' = "t_check"
            /\ UNCHANGED caller
       ELSE /\ caller' = "exit"
            /\ mpc' = IF entered THEN "c_flag" ELSE "done"
            /\ UNCHANGED <<edata, testsLeft, eresult, cause, received, recvCount>>
    /\ UNCHANGED <<hvars, otaVars, self_bus, self_isotp_stack, self_running,
                   self_process_thread, tpc, entered, etimeout, enow, recv_start, rxq,
                   exc, lateProcess>>

\* assert tester.test_echo(...); time.sleep(0.2)
\* a failed assertion leaves the with block through __exit__: self.close()
TestReturn ==
    /\ mpc = "t_ret"
    /\ IF eresult = "True"
       THEN /\ mpc' = "t_next"
            /\ UNCHANGED caller
       ELSE /\ caller' = "exit"
            /\ mpc' = IF entered THEN "c_flag" ELSE "done"
    /\ UNCHANGED <<hvars, otaVars, self_bus, self_isotp_stack, self_running,
                   self_process_thread, tpc, entered, edata, etimeout, enow,
                   recv_start, rxq, received, eresult, exc, testsLeft, recvCount,
                   cause, lateProcess>>

\* test_echo: if not self.isotp_stack: return False
EchoCheckStack ==
    /\ mpc = "t_check"
    /\ IF ~self_isotp_stack
       THEN /\ eresult' = "False"
            /\ cause' = "nostack"
            /\ mpc' = "t_ret"
       ELSE /\ mpc' = "t_send"
            /\ UNCHANGED <<eresult, cause>>
    /\ UNCHANGED <<hvars, otaVars, self_bus, self_isotp_stack, self_running,
                   self_process_thread, tpc, caller, entered, edata, etimeout, enow,
                   recv_start, rxq, received, exc, testsLeft, recvCount, lateProcess>>

\* self.isotp_stack.send(data)
EchoSend ==
    /\ mpc = "t_send"
    /\ \E ok \in BOOLEAN : mpc' = IF ok THEN "t_recv_start" ELSE "t_except"
    /\ UNCHANGED <<hvars, otaVars, self_bus, self_isotp_stack, self_running,
                   self_process_thread, tpc, caller, entered, edata, etimeout, enow,
                   recv_start, rxq, received, eresult, exc, testsLeft, recvCount,
                   cause, lateProcess>>

\* recv_start = time.time()
EchoRecvStart ==
    /\ mpc = "t_recv_start"
    /\ recv_start' = enow
    /\ mpc' = "t_loop"
    /\ UNCHANGED <<hvars, otaVars, self_bus, self_isotp_stack, self_running,
                   self_process_thread, tpc, caller, entered, edata, etimeout, enow,
                   rxq, received, eresult, exc, testsLeft, recvCount, cause,
                   lateProcess>>

\* while time.time() - recv_start < timeout
EchoLoop ==
    /\ mpc = "t_loop"
    /\ mpc' = IF StillWaiting(enow, recv_start, etimeout) THEN "t_avail" ELSE "t_timeout"
    /\ UNCHANGED <<hvars, otaVars, self_bus, self_isotp_stack, self_running,
                   self_process_thread, tpc, caller, entered, edata, etimeout, enow,
                   recv_start, rxq, received, eresult, exc, testsLeft, recvCount,
                   cause, lateProcess>>

\* if self.isotp_stack.available()
EchoAvailable ==
    /\ mpc = "t_avail"
    /\ mpc' = IF rxq # << >> THEN "t_recv" ELSE "t_sleep"
    /\ UNCHANGED <<hvars, otaVars, self_bus, self_isotp_stack, self_running,
                   self_process_thread, tpc, caller, entered, edata, etimeout, enow,
                   recv_start, rxq, received, eresult, exc, testsLeft, recvCount,
                   cause, lateProcess>>

\* received = self.isotp_stack.recv(): the oldest queued message, or an exception
EchoRecv ==
    /\ mpc = "t_recv"
    /\ \E ok \in BOOLEAN :
         /\ received' = IF ok THEN Head(rxq) ELSE received
         /\ rxq' = IF ok THEN Tail(rxq) ELSE rxq
         /\ recvCount' = IF ok THEN recvCount + 1 ELSE recvCount
         /\ mpc' = IF ok THEN "t_compare" ELSE "t_except"
    /\ UNCHANGED <<hvars, otaVars, self_bus, self_isotp_stack, self_running,
                   self_process_thread, tpc, caller, entered, edata, etimeout, enow,
                   recv_start, eresult, exc, testsLeft, cause, lateProcess>>

\* if received == data: return True / else: return False
EchoCompare ==
    /\ mpc = "t_compare"
    /\ eresult' = IF EchoMatches(received, edata) THEN "True" ELSE "False"
    /\ cause' = "recv"
    /\ mpc' = "t_ret"
    /\ UNCHANGED <<hvars, otaVars, self_bus, self_isotp_stack, self_running,
                   self_process_thread, tpc, caller, entered, edata, etimeout, enow,
                   recv_start, rxq, received, exc, testsLeft, recvCount, lateProcess>>

\* time.sleep(0.01)
EchoSleep ==
    /\ mpc = "t_sleep"
    /\ enow' = enow + 1
    /\ mpc' = "t_loop"
    /\ UNCHANGED <<hvars, otaVars, self_bus, self_isotp_stack, self_running,
                   self_process_thread, tpc, caller, entered, edata, etimeout,
                   recv_start, rxq, received, eresult, exc, testsLeft, recvCount,
                   cause, lateProcess>>

\* logging.error(... Timeout ...); return False
EchoTimeout ==
    /\ mpc = "t_timeout"
    /\ eresult' = "False"
    /\ cause' = "timeout"
    /\ mpc' = "t_ret"
    /\ UNCHANGED <<hvars, otaVars, self_bus, self_isotp_stack, self_running,
                   self_process_thread, tpc, caller, entered, edata, etimeout, enow,
                   recv_start, rxq, received, exc, testsLeft, recvCount, lateProcess>>

\* except Exception as e: logging.error(...); return False
EchoExcept ==
    /\ mpc = "t_except"
    /\ eresult' = "False"
    /\ cause' = "raise"
    /\ mpc' = "t_ret"
    /\ UNCHANGED <<hvars, otaVars, self_bus, self_isotp_stack, self_running,
                   self_process_thread, tpc, caller, entered, edata, etimeout, enow,
                   recv_start, rxq, received, exc, testsLeft, recvCount, lateProcess>>

\* close: self.running = False
CloseClearRunning ==
    /\ mpc = "c_flag"
    /\ self_running' = FALSE
    /\ mpc' = "c_alive"
    /\ UNCHANGED <<hvars, otaVars, self_bus, self_isotp_stack, self_process_thread,
                   tpc, caller, entered, edata, etimeout, enow, recv_start, rxq,
                   received, eresult, exc, testsLeft, recvCount, cause, lateProcess>>

\* if self.process_thread and self.process_thread.is_alive()
CloseCheckAlive ==
    /\ mpc = "c_alive"
    /\ mpc' = IF self_process_thread # "none" /\ IsAlive(self_process_thread, tpc)
              THEN "c_join" ELSE "c_shutdown"
    /\ UNCHANGED <<hvars, otaVars, self_bus, self_isotp_stack, self_running,
                   self_process_thread, tpc, caller, entered, edata, etimeout, enow,
                   recv_start, rxq, received, eresult, exc, testsLeft, recvCount,
                   cause, lateProcess>>

\* self.process_thread.join(timeout=1.0): returns when the thread has ended or
\* when the second has passed
CloseJoin ==
    /\ mpc = "c_join"
    /\ \E elapsed \in BOOLEAN : JoinReturns(~IsAlive(self_process_thread, tpc), elapsed)
    /\ mpc' = "c_shutdown"
    /\ UNCHANGED <<hvars, otaVars, self_bus, self_isotp_stack, self_running,
                   self_process_thread, tpc, caller, entered, edata, etimeout, enow,
                   recv_start, rxq, received, eresult, exc, testsLeft, recvCount,
                   cause, lateProcess>>

\* if self.bus: self.bus.shutdown(); an exception of shutdown() leaves close()
CloseShutdown ==
    /\ mpc = "c_shutdown"
    /\ IF self_bus # "none"
       THEN \E raised \in BOOLEAN :
              /\ self_bus' = "closed"
              /\ exc' = IF raised THEN "shutdown" ELSE exc
              /\ mpc' = IF raised THEN "raised" ELSE "c_log"
       ELSE /\ mpc' = "c_log"
            /\ UNCHANGED <<self_bus, exc>>
    /\ UNCHANGED <<hvars, otaVars, self_isotp_stack, self_running, self_process_thread,
                   tpc, caller, entered, edata, etimeout, enow, recv_start, rxq,
                   received, eresult, testsLeft, recvCount, cause, lateProcess>>

\* logging.info('Connection closed and resources released.')
CloseReturn ==
    /\ mpc = "c_log"
    /\ mpc' = IF caller = "enter" THEN "e_raise" ELSE "done"
    /\ UNCHANGED <<hvars, otaVars, self_bus, self_isotp_stack, self_running,
                   self_process_thread, tpc, caller, entered, edata, etimeout, enow,
                   recv_start, rxq, received, eresult, exc, testsLeft, recvCount,
                   cause, lateProcess>>

\* _process: while self.running
ThreadWhile ==
    /\ tpc = "b_while"
    /\ tpc' = IF self_running THEN "b_if" ELSE "exit"
    /\ UNCHANGED <<hvars, otaVars, self_bus, self_isotp_stack, self_running,
                   self_process_thread, mpc, caller, entered, edata, etimeout, enow,
                   recv_start, rxq, received, eresult, exc, testsLeft, recvCount,
                   cause, lateProcess>>

\* if self.isotp_stack
ThreadIf ==
    /\ tpc = "b_if"
    /\ tpc' = IF self_isotp_stack THEN "b_process" ELSE "b_sleep"
    /\ UNCHANGED <<hvars, otaVars, self_bus, self_isotp_stack, self_running,
                   self_process_thread, mpc, caller, entered, edata, etimeout, enow,
                   recv_start, rxq, received, eresult, exc, testsLeft, recvCount,
                   cause, lateProcess>>

\* self.isotp_stack.process(): may complete the reception of a message; an
\* exception ends the thread
ThreadProcess ==
    /\ tpc = "b_process"
    /\ \E ok \in BOOLEAN, msg \in EchoMsgs \cup {<< >>} :
         /\ rxq' = IF msg # << >> /\ Len(rxq) < MaxRx THEN Append(rxq, msg) ELSE rxq
         /\ tpc' = IF ok THEN "b_sleep" ELSE "exit"
    /\ lateProcess' = (lateProcess \/ self_bus = "closed")
    /\ UNCHANGED <<hvars, otaVars, self_bus, self_isotp_stack, self_running,
                   self_process_thread, mpc, caller, entered, edata, etimeout, enow,
                   recv_start, received, eresult, exc, testsLeft, recvCount, cause>>

\* time.sleep(0.001)
ThreadSleep ==
    /\ tpc = "b_sleep"
    /\ tpc' = "b_while"
    /\ UNCHANGED <<hvars, otaVars, self_bus, self_isotp_stack, self_running,
                   self_process_thread, mpc, caller, entered, edata, etimeout, enow,
                   recv_start, rxq, received, eresult, exc, testsLeft, recvCount,
                   cause, lateProcess>>

EchoNext ==
    \/ EnterOpenBus \/ EnterMakeStack \/ EnterSetRunning \/ EnterMakeThread
    \/ EnterStartThread \/ EnterReturn \/ EnterExcept \/ EnterRaise \/ TestNext
    \/ TestReturn \/ EchoCheckStack \/ EchoSend \/ EchoRecvStart \/ EchoLoop
    \/ EchoAvailable \/ EchoRecv \/ EchoCompare \/ EchoSleep \/ EchoTimeout
    \/ EchoExcept \/ CloseClearRunning \/ CloseCheckAlive \/ CloseJoin
    \/ CloseShutdown \/ CloseReturn \/ ThreadWhile \/ ThreadIf \/ ThreadProcess
    \/ ThreadSleep

EchoSpec == EchoInit /\ [][EchoNext]_vars

TypeOK ==
    /\ pc \in {"open_bus", "mk_addr", "mk_stack", "header", "sc_start", "sc_send",
               "sc_poll", "sc_process", "sc_check", "sc_sleep", "rest_init", "loop",
               "advance", "loop_process", "complete", "ret_false", "except",
               "finally", "done"}
    /\ bus \in {"none", "open", "closed"}
    /\ tx \in BOOLEAN
    /\ retval \in {"none", "True", "False"}

(* ======================= properties ======================= *)
HeaderLen == 8

\* the units handed to send(), and how many of them
Units == [i \in 1..Len(sendLog) |-> sendLog[i].unit]
NumSent == Len(sendLog)

RECURSIVE Concat(_)
Concat(ss) == IF ss = << >> THEN << >> ELSE Head(ss) \o Concat(Tail(ss))

\* the payload part of the i-th unit: the first unit without its header
PayloadPortion(i) ==
    IF i = 1 THEN SubSeq(Units[1], HeaderLen + 1, Len(Units[1])) ELSE Units[i]

\* all payload bytes handed to send() so far, in send order
PayloadSent == Concat([i \in 1..NumSent |-> PayloadPortion(i)])

IsPrefix(a, b) == Len(a) <= Len(b) /\ a = SubSeq(b, 1, Len(a))

CeilDiv(a, b) == (a + b - 1) \div b

\* the transfer reached Completed: the loop ended without a failure
Completed == pc = "complete" \/ retval = "True"

\* the split point and the header, written out from the wire format
SplitPoint == IF chunk > HeaderLen THEN chunk - HeaderLen ELSE 0
WireHeader ==
    <<79, 84, Len(fw) % 256, (Len(fw) \div 256) % 256,
      (Len(fw) \div 65536) % 256, (Len(fw) \div 16777216) % 256, 0, 0>>

\* C1 as stated: every unit handed to send() is at most chunk bytes long,
\* the first unit included, for every configured chunk size.
C1_EveryUnitWithinChunk ==
    \A i \in 1..NumSent : Len(Units[i]) <= chunk

\* C1 amended: when chunk >= 8 every unit handed to send() is at most chunk
\* bytes long; for every chunk >= 1 every unit after the first is at most
\* chunk bytes long and the first unit is never longer than max(chunk, 8).
C1_UnitsWithinChunkFromHeaderLen ==
    /\ chunk >= HeaderLen => \A i \in 1..NumSent : Len(Units[i]) <= chunk
    /\ \A i \in 2..NumSent : Len(Units[i]) <= chunk
    /\ NumSent >= 1 => Len(Units[1]) <= Max(chunk, HeaderLen)

\* C1 witness: a full first unit and a full second unit with chunk >= 8
C1_Witness ==
    /\ chunk >= HeaderLen
    /\ NumSent >= 2
    /\ Len(Units[1]) = chunk
    /\ Len(Units[2]) = chunk

\* C2: the payload portions of the units handed to send(), concatenated in
\* send order, are always a prefix of the payload, and are the whole payload
\* once the transfer has completed.
C2_RoundTrip ==
    /\ IsPrefix(PayloadSent, fw)
    /\ Completed => PayloadSent = fw

\* C2 witness: a completed transfer of at least three units with chunk >= 8
C2_Witness ==
    /\ retval = "True"
    /\ NumSent >= 3
    /\ chunk >= HeaderLen
    /\ PayloadSent = fw

\* C3: the first unit is the 8-byte header followed by payload[0 : min(n0, L)]
\* with n0 = max(0, chunk - 8); every later unit is the payload slice that
\* starts where the previous unit's slice ended, without a header.
C3_FirstUnitAndSlices ==
    /\ NumSent >= 1 =>
         /\ Units[1] = WireHeader \o SubSeq(fw, 1, Min(SplitPoint, Len(fw)))
         /\ Len(Units[1]) = HeaderLen + Min(SplitPoint, Len(fw))
    /\ \A i \in 2..NumSent :
         LET a == SplitPoint + (i - 2) * chunk
         IN  Units[i] = SubSeq(fw, a + 1, Min(a + chunk, Len(fw)))

\* C3 witness: a first unit with header and payload, followed by a second unit
C3_Witness ==
    /\ NumSent >= 2
    /\ Len(Units[1]) > HeaderLen
    /\ Len(Units[2]) > 0

\* C4 as stated: when send_chunk decides to return the timeout failure the
\* stack is still transmitting.
C4_TimeoutOnlyWhileTransmitting ==
    pc = "ret_false" => tx

\* C5: whenever send_chunk has returned failure, the clock reading minus the
\* submission time is strictly greater than the timeout.
C5_NoEarlyTimeout ==
    timedOut => now - start > timeout

\* C5 witness: send_chunk has just returned failure with a non-zero timeout
\* and the unit still queued
C5_Witness ==
    /\ pc = "ret_false"
    /\ timedOut
    /\ timeout > 0
    /\ tx

\* C6: every send() after the first is called while transmitting() is false.
C6_NoOverlap ==
    \A i \in 2..NumSent : ~sendLog[i].busy

\* C6 witness: a third unit was accepted by send()
C6_Witness ==
    /\ NumSent >= 3
    /\ sendLog[3].ok

\* C7: once a chunk has timed out or send() has raised, no further send()
\* is made, and the function returns False.
C7_FailureAborts ==
    /\ [][failed => sendLog' = sendLog]_vars
    /\ [](pc = "done" /\ failed => outcome = [kind |-> "returned", value |-> "False"])

\* C7 witness: the function has returned after a chunk timed out with part
\* of the payload never handed to send()
C7_Witness ==
    /\ pc = "done"
    /\ timedOut
    /\ NumSent >= 2
    /\ Len(PayloadSent) < Len(fw)

\* C8: bus.shutdown() is called at most once, exactly once by the time the
\* function returns if the bus was opened, and no send() or process()
\* follows it.
C8_BusReleasedOnce ==
    /\ shutdownCalls <= 1
    /\ lateCalls = 0
    /\ bus = "none" => shutdownCalls = 0
    /\ pc = "done" /\ bus # "none" => shutdownCalls = 1 /\ bus = "closed"
    /\ bus = "closed" => pc = "done"

\* C8 witness: setup failed after the bus was opened, nothing was sent, and
\* the bus has been shut down
C8_Witness ==
    /\ pc = "done"
    /\ NumSent = 0
    /\ shutdownCalls = 1
    /\ bus = "closed"

\* C9: the function returns the value of the return statement it executed,
\* also when bus.shutdown() raised; no exception reaches the caller.
C9_TeardownKeepsResult ==
    pc = "done" =>
        /\ outcome.kind = "returned"
        /\ outcome.value = retval
        /\ retval \in {"True", "False"}

\* C9 witness: a completed transfer whose bus.shutdown() raised
C9_Witness ==
    /\ pc = "done"
    /\ shutdownRaised
    /\ outcome.value = "True"
    /\ NumSent >= 2

C13_OffsetEqualsBytesSent ==
    pc \in {"loop", "complete"} =>
        /\ off = Len(PayloadSent)
        /\ off <= Len(fw)
        /\ pc = "complete" => off = Len(fw)

\* C13 amended: off starts at n0 = max(0, chunk - 8) and grows by chunk after
\* every drained subsequent chunk; at every loop test the number of payload
\* bytes handed to send() so far is min(off, len(fw)), and off >= len(fw) at
\* Completed.
C13_OffsetTracksUpToOvershoot ==
    pc \in {"loop", "complete"} =>
        /\ off = SplitPoint + (chunk_count - 1) * chunk
        /\ Len(PayloadSent) = Min(off, Len(fw))
        /\ pc = "complete" => off >= Len(fw)

\* C13 witness: a completed transfer of several units whose off overshoots
C13_Witness ==
    /\ pc = "complete"
    /\ NumSent >= 3
    /\ off > Len(fw)

\* C14: the step on which a chunk fails changes neither off nor chunk_count,
\* no later step changes them, and after a failure in the loop chunk_count
\* is the number of chunks that drained.
C14_FrozenOnFailure ==
    /\ [][(failed' /\ ~failed) => (off' = off /\ chunk_count' = chunk_count)]_vars
    /\ [][failed => (off' = off /\ chunk_count' = chunk_count)]_vars
    /\ [](failed /\ which = "rest" => chunk_count = drained)

\* C14 witness: the function has returned after the third or a later chunk
\* timed out
C14_Witness ==
    /\ pc = "done"
    /\ timedOut
    /\ which = "rest"
    /\ chunk_count >= 2
    /\ off < Len(fw)

\* C15: when a subsequent chunk is handed to send(), and when the transfer
\* completes, exactly one line-130 process() call has been made per drained
\* subsequent chunk; none is made for a chunk that did not drain.
C15_OneExtraProcessPerChunk ==
    /\ pc = "sc_send" /\ which = "rest" => extraProcs = NumSent - 1
    /\ pc = "complete" => extraProcs = NumSent - 1
    /\ extraProcs <= Max(0, drained - 1)
    /\ failed /\ ~procRaised => extraProcs = Max(0, drained - 1)

\* C15 witness: a completed transfer with two line-130 process() calls
C15_Witness ==
    /\ pc = "complete"
    /\ extraProcs = 2
    /\ NumSent = 3

\* C18: with a clock that advances at every poll, ota_send_isotp returns.
C18_Terminates ==
    <>(pc = "done")

\* C18 witness: the function has returned after two chunks drained and a
\* third one timed out
C18_Witness ==
    /\ pc = "done"
    /\ drained >= 2
    /\ timedOut
    /\ now - start > timeout

\* what C19 calls a transfer in which every chunk was submitted and drained
AllDrained ==
    /\ NumSent >= 1
    /\ \A i \in 1..NumSent : sendLog[i].ok
    /\ ~timedOut
    /\ drained = NumSent
    /\ PayloadSent = fw

\* C19 as stated: the function returns True exactly if setup succeeded, no
\* send() raised and every chunk was submitted and drained without timeout.
C19_TrueIffAllDrained ==
    pc = "done" => (outcome.value = "True" <=> AllDrained)

\* C19 amended: the function returns True exactly if setup succeeded, neither
\* send() nor process() raised and every chunk was submitted and drained
\* without timeout; and unless setup fails, a call raises or a chunk times
\* out, the function eventually returns True.
C19_TrueIffAllDrainedNoRaise ==
    /\ [](pc = "done" => (outcome.value = "True" <=> (AllDrained /\ ~procRaised)))
    /\ <>(pc = "done" /\ (outcome.value = "True" \/ failed \/ procRaised \/ NumSent = 0))

\* C19 witness: the function has returned True for a transfer of three units
C19_Witness ==
    /\ pc = "done"
    /\ outcome.value = "True"
    /\ NumSent >= 3
    /\ AllDrained

\* the size a header's size field decodes to, as two halves
DecodeSize(h) == [hi |-> h[5] + 256 * h[6], lo |-> h[3] + 256 * h[4]]

\* C11: a header handed to send() is 8 bytes 'O','T', size (4 bytes little
\* endian), 0, 0, and its size field decodes to len(fw) exactly; for a length
\* of 2^32 or more no header is handed to send(); a second _make_header call
\* gives the same bytes; and for lengths the driver model covers the header
\* is the one the driver model builds.
C11_HeaderExact ==
    /\ hsent # << >> =>
         /\ Len(hsent) = HeaderLen
         /\ \A i \in 1..Len(hsent) : hsent[i] \in 0..255
         /\ hsent[1] = 79 /\ hsent[2] = 84 /\ hsent[7] = 0 /\ hsent[8] = 0
         /\ DecodeSize(hsent) = hsize
    /\ hsize.hi >= 65536 => hsent = << >> /\ hdr = << >>
    /\ hdr2 # << >> => hdr2 = hdr
    /\ (hdr # << >> /\ hsize.hi < 32768) => hdr = MakeHeader(hsize.hi * 65536 + hsize.lo)

\* C11 witness: the header of a payload of 2^32 - 1 bytes has been handed to
\* send() and built a second time
C11_Witness ==
    /\ hpc = "done"
    /\ hsize = [hi |-> 65535, lo |-> 65535]
    /\ hsent = <<79, 84, 255, 255, 255, 255, 0, 0>>
    /\ hdr2 = hsent

\* close() has returned or has been left by an exception
CloseOver == mpc \in {"e_raise", "raised", "done"} /\ caller \in {"enter", "exit"}

\* C12 as stated: process() is never executed on the stack after
\* self.bus.shutdown() has been called.
C12_NoProcessAfterShutdown ==
    ~lateProcess

\* C16: test_echo returns True exactly when the one message it took from the
\* stack, before the timeout, equals the data sent; it returns False without
\* taking a message when the stack is absent, on a timeout and when send()
\* or recv() raises, and after one mismatching message; it always returns.
C16_EchoVerdict ==
    /\ recvCount <= 1
    /\ mpc = "t_ret" =>
         /\ eresult \in {"True", "False"}
         /\ eresult = "True" <=> (recvCount = 1 /\ cause = "recv" /\ received = edata)
         /\ cause = "recv" => recvCount = 1 /\ enow - recv_start < etimeout
         /\ cause = "nostack" => ~self_isotp_stack /\ recvCount = 0
         /\ cause = "timeout" => recvCount = 0 /\ enow - recv_start >= etimeout
         /\ cause \in {"nostack", "timeout", "raise"} => eresult = "False"
         /\ cause # "none"

\* C16 witness: test_echo returned True for a two-byte message while another
\* message is already queued
C16_Witness ==
    /\ mpc = "t_ret"
    /\ eresult = "True"
    /\ edata = <<0, 1>>
    /\ received = <<0, 1>>
    /\ rxq # << >>

\* C17 as stated: when __enter__ fails after the bus was opened, the caller
\* gets the original exception, with self.running cleared and the bus shut
\* down.
C17_EnterFailureCleansUp ==
    (mpc = "raised" /\ caller = "enter" /\ self_bus # "none") =>
        /\ ~self_running
        /\ self_bus = "closed"
        /\ exc = "orig"
====
